---- MODULE Spec2Model ----
(***************************************************************************)
(* Model of the FSN dashboard (src/main.py): one Streamlit script run is   *)
(* a sequence of steps (load, filters, main content, feedback tab, admin   *)
(* panel); the persisted feedback file and the st.cache_data memo survive  *)
(* from one run to the next.                                               *)
(*                                                                         *)
(* Text is a sequence of one-character strings, so that lower-casing,      *)
(* substring search, whitespace splitting and CSV parsing are computed.    *)
(* A float is a record [k, v]: k = "nan", k = "inf" (v = sign) or          *)
(* k = "fin" (v = the value in halves: 3 is 1.5).                          *)
(***************************************************************************)
EXTENDS Integers, Sequences, FiniteSets, TLC

VARIABLES
    pc,           \* position of the script run
    source,       \* what CLEANED_CSV_URL serves: [columns_ok, rows]
    cache,        \* st.cache_data memo of load_and_prepare_data
    df,           \* the loaded frame (sequence of cleaned records)
    df_filtered,  \* the frame after the sidebar filters
    errors,       \* st.error messages shown in this run
    warnings,     \* st.warning messages shown in this run
    executed,     \* the steps of the script this run has executed
    load_result,  \* "pending" | "ok" | "failed": did read_csv/cleaning raise
    store,        \* usability_feedback.csv: [exists, rows] (rows of cell texts)
    admin_view,   \* what the admin panel rendered in this run
    admin_input,  \* the admin checkbox and password field as set in this run
    exception     \* uncaught exception that ended this run ("" if none)

vars == << pc, source, cache, df, df_filtered, errors, warnings, executed,
           load_result, store, admin_view, admin_input, exception >>

(***************************************************************************)
(* Bounds of the model.                                                    *)
(***************************************************************************)
MaxRecords == 1
MaxStore == 2
MaxWords == 2

(***************************************************************************)
(* Text helpers.                                                           *)
(***************************************************************************)
LowerMap ==
    ("A" :> "a") @@ ("B" :> "b") @@ ("C" :> "c") @@ ("D" :> "d") @@
    ("E" :> "e") @@ ("F" :> "f") @@ ("G" :> "g") @@ ("H" :> "h") @@
    ("I" :> "i") @@ ("J" :> "j") @@ ("K" :> "k") @@ ("L" :> "l") @@
    ("M" :> "m") @@ ("N" :> "n") @@ ("O" :> "o") @@ ("P" :> "p") @@
    ("Q" :> "q") @@ ("R" :> "r") @@ ("S" :> "s") @@ ("T" :> "t") @@
    ("U" :> "u") @@ ("V" :> "v") @@ ("W" :> "w") @@ ("X" :> "x") @@
    ("Y" :> "y") @@ ("Z" :> "z")

\* str.lower()
Lower(text) ==
    [i \in 1..Len(text) |->
        IF text[i] \in DOMAIN LowerMap THEN LowerMap[text[i]] ELSE text[i]]

\* text.startswith(word) in place of the substring test
StartsWith(text, word) ==
    Len(word) <= Len(text) /\ SubSeq(text, 1, Len(word)) = word

\* word in text (substring test on str)
Contains(text, word) ==
    \E i \in 0..(Len(text) - Len(word)) :
        SubSeq(text, i + 1, i + Len(word)) = word

\* any(word in text for word in words)
AnyIn(words, text) ==
    \E j \in 1..Len(words) : Contains(text, words[j])

Range(seq) == {seq[i] : i \in 1..Len(seq)}

Space == " "

\* " ".join(parts)
RECURSIVE Join(_)
Join(parts) ==
    IF Len(parts) = 0 THEN << >>
    ELSE IF Len(parts) = 1 THEN parts[1]
    ELSE parts[1] \o << Space >> \o Join(Tail(parts))

\* str.split(): maximal runs of non-whitespace characters
RECURSIVE SplitFrom(_, _, _)
SplitFrom(text, i, cur) ==
    IF i > Len(text)
    THEN IF cur = << >> THEN << >> ELSE << cur >>
    ELSE IF text[i] = Space
         THEN IF cur = << >>
              THEN SplitFrom(text, i + 1, << >>)
              ELSE << cur >> \o SplitFrom(text, i + 1, << >>)
         ELSE SplitFrom(text, i + 1, Append(cur, text[i]))

Split(text) == SplitFrom(text, 1, << >>)

Digits == {"0", "1", "2", "3", "4", "5", "6", "7", "8", "9"}

DigitValue ==
    ("0" :> 0) @@ ("1" :> 1) @@ ("2" :> 2) @@ ("3" :> 3) @@ ("4" :> 4) @@
    ("5" :> 5) @@ ("6" :> 6) @@ ("7" :> 7) @@ ("8" :> 8) @@ ("9" :> 9)

Signs == {"-", "+"}

\* the literal without its sign
Unsigned(text) ==
    IF Len(text) > 0 /\ text[1] \in Signs THEN Tail(text) ELSE text

SignOf(text) ==
    IF Len(text) > 0 /\ text[1] = "-" THEN -1 ELSE 1

\* an optionally signed run of decimal digits
IsIntLiteral(text) ==
    /\ Len(Unsigned(text)) > 0
    /\ \A i \in 1..Len(Unsigned(text)) : Unsigned(text)[i] \in Digits

RECURSIVE DigitsValue(_)
DigitsValue(ds) ==
    IF Len(ds) = 0 THEN 0
    ELSE 10 * DigitsValue(SubSeq(ds, 1, Len(ds) - 1)) + DigitValue[ds[Len(ds)]]

IntValue(text) == SignOf(text) * DigitsValue(Unsigned(text))

\* an optionally signed decimal literal with one fractional digit, 0 or 5:
\* the decimal texts of the values the model represents (halves)
IsDecimalLiteral(text) ==
    LET u == Unsigned(text)
    IN  /\ Len(u) >= 3
        /\ u[Len(u) - 1] = "."
        /\ u[Len(u)] \in {"0", "5"}
        /\ \A i \in 1..(Len(u) - 2) : u[i] \in Digits

\* the value of a decimal literal, in halves
DecimalHalves(text) ==
    LET u == Unsigned(text)
    IN  SignOf(text) * (2 * DigitsValue(SubSeq(u, 1, Len(u) - 2))
                          + (IF u[Len(u)] = "5" THEN 1 ELSE 0))

\* the spellings of infinity the numeric parsers accept (after lower-casing)
InfLiterals ==
    { <<"i","n","f">>, <<"i","n","f","i","n","i","t","y">> }

IsInfLiteral(text) == Lower(Unsigned(text)) \in InfLiterals

\* the cell texts pandas.read_csv reads as missing (its default na_values)
STR_NA_VALUES ==
    { << >>,
      <<"#","N","/","A">>,
      <<"#","N","/","A"," ","N","/","A">>,
      <<"#","N","A">>,
      <<"-","1",".","#","I","N","D">>,
      <<"-","1",".","#","Q","N","A","N">>,
      <<"-","N","a","N">>,
      <<"-","n","a","n">>,
      <<"1",".","#","I","N","D">>,
      <<"1",".","#","Q","N","A","N">>,
      <<"<","N","A",">">>,
      <<"N","/","A">>,
      <<"N","A">>,
      <<"N","U","L","L">>,
      <<"N","a","N">>,
      <<"N","o","n","e">>,
      <<"n","/","a">>,
      <<"n","a","n">>,
      <<"n","u","l","l">> }

(***************************************************************************)
(* Floats.                                                                 *)
(***************************************************************************)
NaN == [k |-> "nan", v |-> 0]
Fin(h) == [k |-> "fin", v |-> h]
Inf(s) == [k |-> "inf", v |-> s]

IsNaN(x) == x.k = "nan"

\* x + y in IEEE arithmetic (neither operand NaN)
FloatAdd(x, y) ==
    IF x.k = "fin" /\ y.k = "fin" THEN Fin(x.v + y.v)
    ELSE IF x.k = "inf" /\ y.k = "inf"
         THEN IF x.v = y.v THEN x ELSE NaN
         ELSE IF x.k = "inf" THEN x ELSE y

\* x / n for a count n >= 1
FloatDiv(x, n) ==
    IF x.k = "fin" THEN Fin(x.v \div n) ELSE x

(***************************************************************************)
(* 1. Data loading and preparation.                                        *)
(***************************************************************************)
\* a categorical cell as pd.read_csv reads it: an empty cell is missing
NoValue == "<NA>"
ReadCategory(cell) == IF cell = "" THEN NoValue ELSE cell

\* a coercion that takes only integer literals for numbers
to_numeric_integers_only(text) ==
    IF text \in STR_NA_VALUES THEN NaN
    ELSE IF IsIntLiteral(text) THEN Fin(2 * IntValue(text))
    ELSE IF IsInfLiteral(text) THEN Inf(SignOf(text))
    ELSE NaN

\* pd.read_csv followed by pd.to_numeric(errors='coerce') on one cell
to_numeric(text) ==
    IF text \in STR_NA_VALUES THEN NaN
    ELSE IF IsIntLiteral(text) THEN Fin(2 * IntValue(text))
    ELSE IF IsDecimalLiteral(text) THEN Fin(DecimalHalves(text))
    ELSE IF IsInfLiteral(text) THEN Inf(SignOf(text))
    ELSE NaN

\* df[["Gaji_Bapa", "Gaji_Ibu"]].mean(axis=1): the mean of the values
\* that are not missing (skipna), missing when there is none
RowMean(a, b) ==
    IF IsNaN(a) /\ IsNaN(b) THEN NaN
    ELSE IF IsNaN(a) THEN b
    ELSE IF IsNaN(b) THEN a
    ELSE FloatDiv(FloatAdd(a, b), 2)

\* one row of the frame load_and_prepare_data returns
CleanRecord(raw) ==
    [ JANTINA      |-> ReadCategory(raw.JANTINA),
      BANGSA       |-> ReadCategory(raw.BANGSA),
      DAERAH       |-> ReadCategory(raw.DAERAH),
      Berat_KG     |-> to_numeric(raw.Berat_KG),
      Tinggi_CM    |-> to_numeric(raw.Tinggi_CM),
      Umur_Bulan   |-> to_numeric(raw.Umur_Bulan),
      Gaji_Bapa    |-> to_numeric(raw.Gaji_Bapa),
      Gaji_Ibu     |-> to_numeric(raw.Gaji_Ibu),
      Gaji_Penjaga |-> to_numeric(raw.Gaji_Penjaga),
      BMI          |-> to_numeric(raw.BMI),
      Avg_Parental_Income |->
          RowMean(to_numeric(raw.Gaji_Bapa), to_numeric(raw.Gaji_Ibu)) ]

LoadError == "Error loading data from URL"

\* load_and_prepare_data(file_url): the frame it returns and the st.error
\* calls it makes. available = pd.read_csv obtained the file.
load_and_prepare_data(available, src) ==
    IF available /\ src.columns_ok
    THEN [ df     |-> [i \in 1..Len(src.rows) |-> CleanRecord(src.rows[i])],
           errors |-> << >>,
           raised |-> FALSE ]
    ELSE [ df |-> << >>, errors |-> << LoadError >>, raised |-> TRUE ]

(***************************************************************************)
(* 2. The feedback file and the frames read from it.                       *)
(*    A file row holds the text of its cells; a frame row holds the value  *)
(*    pandas gives each cell. A Feedback value is a record [k, s, v]:      *)
(*    k = "str" (s = the text), "nan", "int" (v), "float" (v, the value    *)
(*    in halves) or "inf" (v = sign).                                      *)
(***************************************************************************)
NoFile == [exists |-> FALSE, rows |-> << >>]
File(rows) == [exists |-> TRUE, rows |-> rows]

StrCell(t) == [k |-> "str", s |-> t, v |-> 0]
NaNCell == [k |-> "nan", s |-> << >>, v |-> 0]
IntCell(n) == [k |-> "int", s |-> << >>, v |-> n]
FloatCell(n) == [k |-> "float", s |-> << >>, v |-> n]
InfCell(sgn) == [k |-> "inf", s |-> << >>, v |-> sgn]

IsNumericLiteral(text) ==
    IsIntLiteral(text) \/ IsDecimalLiteral(text) \/ IsInfLiteral(text)

\* the dtype pd.read_csv infers for a column of cell texts
ColumnDtype(texts) ==
    LET present == {i \in 1..Len(texts) : texts[i] \notin STR_NA_VALUES}
    IN  IF \E i \in present : ~IsNumericLiteral(texts[i]) THEN "object"
        ELSE IF present = 1..Len(texts)
                /\ \A i \in present : IsIntLiteral(texts[i])
             THEN "int64"
             ELSE "float64"

\* the value pd.read_csv gives one cell of a column of that dtype
ReadCell(text, dtype) ==
    IF text \in STR_NA_VALUES THEN NaNCell
    ELSE IF dtype = "object" THEN StrCell(text)
    ELSE IF dtype = "int64" THEN IntCell(IntValue(text))
    ELSE IF IsInfLiteral(text) THEN InfCell(SignOf(text))
    ELSE IF IsDecimalLiteral(text) THEN FloatCell(DecimalHalves(text))
    ELSE FloatCell(2 * IntValue(text))

\* pd.read_csv("usability_feedback.csv") on an existing file
read_csv(rows) ==
    LET dtype == ColumnDtype([i \in 1..Len(rows) |-> rows[i].Feedback])
    IN  [i \in 1..Len(rows) |->
            [ Timestamp |-> rows[i].Timestamp,
              Rating    |-> rows[i].Rating,
              Feedback  |-> ReadCell(rows[i].Feedback, dtype) ]]

\* str(n) for a natural number
RECURSIVE NatText(_)
NatText(n) ==
    LET d == CHOOSE c \in Digits : DigitValue[c] = n % 10
    IN  IF n < 10 THEN << d >> ELSE Append(NatText(n \div 10), d)

IntText(n) == IF n < 0 THEN << "-" >> \o NatText(-n) ELSE NatText(n)

\* the text DataFrame.to_csv writes for a float (na_rep = '')
FloatText(x) ==
    IF x.k = "nan" THEN << >>
    ELSE IF x.k = "inf"
         THEN IF x.v < 0 THEN << "-", "i", "n", "f" >> ELSE << "i", "n", "f" >>
         ELSE LET m == IF x.v < 0 THEN -x.v ELSE x.v
              IN  (IF x.v < 0 THEN << "-" >> ELSE << >>)
                      \o NatText(m \div 2)
                      \o << ".", IF m % 2 = 1 THEN "5" ELSE "0" >>

\* the text DataFrame.to_csv writes for a Feedback value (na_rep = '')
CellText(cell) ==
    IF cell.k = "str" THEN cell.s
    ELSE IF cell.k = "nan" THEN << >>
    ELSE IF cell.k = "int" THEN IntText(cell.v)
    ELSE IF cell.k = "float" THEN FloatText(Fin(cell.v))
    ELSE FloatText(Inf(cell.v))

\* DataFrame.to_csv("usability_feedback.csv", index=False)
to_csv(frame) ==
    [i \in 1..Len(frame) |->
        [ Timestamp |-> frame[i].Timestamp,
          Rating    |-> frame[i].Rating,
          Feedback  |-> CellText(frame[i].Feedback) ]]

\* the frame the Submit Feedback handler writes back
UpdatedFeedback(file, timestamp, rating, feedback) ==
    LET new_feedback == << [ Timestamp |-> timestamp,
                             Rating    |-> rating,
                             Feedback  |-> StrCell(feedback) ] >>
    IN  IF ~file.exists THEN new_feedback
        ELSE read_csv(file.rows) \o new_feedback

(***************************************************************************)
(* 3. Sentiment and keywords (admin panel).                                *)
(***************************************************************************)
positive_words ==
    << <<"g","o","o","d">>,
       <<"n","i","c","e">>,
       <<"e","a","s","y">>,
       <<"h","e","l","p","f","u","l">>,
       <<"c","l","e","a","r">>,
       <<"g","r","e","a","t">> >>

negative_words ==
    << <<"b","a","d">>,
       <<"d","i","f","f","i","c","u","l","t">>,
       <<"c","o","n","f","u","s","i","n","g">>,
       <<"s","l","o","w">>,
       <<"n","o","t"," ","g","o","o","d">> >>

stopwords ==
    << <<"t","h","e">>,
       <<"a","n","d">>,
       <<"i","s">>,
       <<"t","o">>,
       <<"a">>,
       <<"o","f">>,
       <<"f","o","r">>,
       <<"i","t">>,
       <<"t","h","i","s">> >>

Labels == {"Positive", "Negative", "Neutral"}

\* the phrase "not good" looked for before the single keywords
classify_sentiment_phrase_first(text) ==
    IF Contains(Lower(text), negative_words[5]) THEN "Negative"
    ELSE IF AnyIn(positive_words, Lower(text)) THEN "Positive"
    ELSE IF AnyIn(negative_words, Lower(text)) THEN "Negative"
    ELSE "Neutral"

\* a classifier with memory: once a stored comment matched a negative
\* keyword, every comment without a positive keyword is labelled Negative
classify_sentiment_carry(text) ==
    IF AnyIn(positive_words, Lower(text)) THEN "Positive"
    ELSE IF \/ AnyIn(negative_words, Lower(text))
            \/ \E i \in 1..Len(store.rows) :
                  AnyIn(negative_words, Lower(store.rows[i].Feedback))
         THEN "Negative"
         ELSE "Neutral"

\* the negative check placed before the positive check
classify_sentiment_negative_first(text) ==
    IF AnyIn(negative_words, Lower(text)) THEN "Negative"
    ELSE IF AnyIn(positive_words, Lower(text)) THEN "Positive"
    ELSE "Neutral"

\* classify_sentiment(text) for a str
classify_sentiment(text) ==
    IF AnyIn(positive_words, Lower(text)) THEN "Positive"
    ELSE IF AnyIn(negative_words, Lower(text)) THEN "Negative"
    ELSE "Neutral"

\* feedback_df["Feedback"].fillna("")
fillna(column) ==
    [i \in 1..Len(column) |->
        IF column[i].k = "nan" THEN StrCell(<< >>) ELSE column[i]]

\* .apply(classify_sentiment) raises AttributeError on a value that is not
\* a str (text.lower()), and then no Sentiment column is assigned
ApplyRaises(column) == \E i \in 1..Len(column) : column[i].k # "str"

SentimentColumn(column) ==
    [i \in 1..Len(column) |-> classify_sentiment(column[i].s)]

\* feedback_df["Feedback"].dropna().tolist()
dropna(column) == SelectSeq(column, LAMBDA c : c.k # "nan")

MinLen == 3
TopN == 10

InStopwords(w) == \E j \in 1..Len(stopwords) : stopwords[j] = w

\* all_words and words of the keyword extraction
KeywordTokens(column) ==
    LET texts == [i \in 1..Len(dropna(column)) |-> dropna(column)[i].s]
        all_words == Split(Lower(Join(texts)))
    IN  SelectSeq(all_words, LAMBDA w : ~InStopwords(w) /\ Len(w) > MinLen)

Count(words, w) == Cardinality({i \in 1..Len(words) : words[i] = w})

\* .head(n)
head(seq, n) == SubSeq(seq, 1, IF Len(seq) < n THEN Len(seq) ELSE n)

\* pd.Series(words).value_counts(): the distinct words with their counts,
\* by descending count. pandas fixes no order among words of equal count
\* (the sort is not stable), so every such order is a possible result.
value_counts(words) ==
    LET ws == Range(words)
        n  == Cardinality(ws)
    IN  { [i \in 1..n |-> [word |-> o[i], count |-> Count(words, o[i])]] :
            o \in { f \in [1..n -> ws] :
                      /\ \A i, j \in 1..n : i # j => f[i] # f[j]
                      /\ \A i, j \in 1..n :
                            i < j => Count(words, f[i]) >= Count(words, f[j]) } }

(***************************************************************************)
(* 4. Inputs: what the URL may serve, what a user may type.                *)
(***************************************************************************)
SeqsUpTo(S, n) == UNION {[1..k -> S] : k \in 0..n}

RawRecord(jantina, daerah, berat, bapa, ibu) ==
    [ JANTINA      |-> jantina,
      BANGSA       |-> "Melayu",
      DAERAH       |-> daerah,
      Berat_KG     |-> berat,
      Tinggi_CM    |-> <<"1","0","0">>,
      Umur_Bulan   |-> <<"2","4">>,
      Gaji_Bapa    |-> bapa,
      Gaji_Ibu     |-> ibu,
      Gaji_Penjaga |-> <<"a","b","c">>,
      BMI          |-> <<"1","5">> ]

\* the rows the dashboard runs are explored with
SmallRawRecords ==
    { RawRecord("L", "Bachok", <<"1","5">>, <<"2","0">>, << >>),
      RawRecord("P", "Tumpat", << >>, <<"-","5">>, <<"3","0">>),
      RawRecord("", "Bachok", <<"1","5">>, << >>, << >>) }

RawDatasets == SeqsUpTo(SmallRawRecords, MaxRecords)

\* a source with a numeric column missing makes the loader raise KeyError
Sources ==
    {[columns_ok |-> TRUE, rows |-> d] : d \in RawDatasets}
        \cup {[columns_ok |-> FALSE, rows |-> << >>]}

\* the cell texts the cleaning step is explored with
SalaryCells ==
    { << >>, <<"a","b","c">>, <<"-","5">>, <<"2","0">>, <<"3","0">>,
      <<"i","n","f">>, <<"-","i","n","f">> }
WeightCells == { << >>, <<"1","5">> }
HeightCells == { << >>, <<"0">>, <<"1","0","0">> }
BmiCells == { << >>, <<"0">>, <<"1","5">> }

RichRawRecords ==
    [ JANTINA      : {"L"},
      BANGSA       : {"Melayu"},
      DAERAH       : {"Bachok"},
      Berat_KG     : WeightCells,
      Tinggi_CM    : HeightCells,
      Umur_Bulan   : { <<"2","4">> },
      Gaji_Bapa    : SalaryCells,
      Gaji_Ibu     : SalaryCells,
      Gaji_Penjaga : SalaryCells,
      BMI          : BmiCells ]

Vocabulary ==
    { <<"G","o","o","d">>, <<"n","o","t">>, <<"b","a","d">>,
      <<"s","l","o","w">>, <<"c","l","e","a","r">>, <<"t","h","e">>,
      <<"l","a","y","o","u","t">>, <<"5">> }

\* the comments the classifier is explored with
RichComments == {Join(ws) : ws \in SeqsUpTo(Vocabulary, MaxWords)}

\* the comments the dashboard runs are explored with
TypedComments ==
    { << >>,
      <<"N","/","A">>,
      <<"5">>,
      <<"n","o","t"," ","G","o","o","d">>,
      <<"s","l","o","w"," ","l","a","y","o","u","t">> }

Ratings == {5}
Timestamps == {"2025-01-01 10:00:00", "2025-01-02 10:00:00"}

AdminPassword == "fsn2025"
Passwords == {"", "fsn2025", "FSN2025"}

(***************************************************************************)
(* 5. The script run.                                                      *)
(***************************************************************************)
NoCache == [hit |-> FALSE, df |-> << >>, errors |-> << >>, raised |-> FALSE]

NoView ==
    [ shown          |-> FALSE,
      table          |-> << >>,
      total_feedback |-> 0,
      rating_sum     |-> 0,
      sentiment      |-> << >>,
      keywords       |-> << >>,
      no_keywords    |-> FALSE,
      download       |-> FALSE ]

\* the checkbox unticked; the password field exists only once it is ticked
NoInput == [show_admin |-> FALSE, admin_password |-> ""]

NoDataWarning == "No data matches the current filters"
NoFeedbackWarning == "No feedback data available yet"
PasswordError == "Incorrect password"

FreshRun ==
    /\ df = << >>
    /\ df_filtered = << >>
    /\ errors = << >>
    /\ warnings = << >>
    /\ executed = {}
    /\ load_result = "pending"
    /\ admin_view = NoView
    /\ admin_input = NoInput
    /\ exception = ""

Init ==
    /\ pc = "load"
    /\ source \in Sources
    /\ cache = NoCache
    /\ store = NoFile
    /\ FreshRun

\* a rerun of the script (any widget interaction), after the last one ended
StartRun ==
    /\ pc \in {"stopped", "done"}
    /\ pc' = "load"
    /\ df' = << >>
    /\ df_filtered' = << >>
    /\ errors' = << >>
    /\ warnings' = << >>
    /\ executed' = {}
    /\ load_result' = "pending"
    /\ admin_view' = NoView
    /\ admin_input' = NoInput
    /\ exception' = ""
    /\ UNCHANGED << source, cache, store >>

\* what the cached call returns: st.cache_data runs the function on a miss
\* and stores its result with the st.error it made; on a hit it returns the
\* stored frame and replays the stored st.error
CachedLoad(memo, available, src) ==
    IF memo.hit THEN memo
    ELSE [hit |-> TRUE] @@ load_and_prepare_data(available, src)

\* the st.stop() after a failed load left out
AfterLoad_no_stop(frame) == "filters"

\* if df.empty: st.stop()
AfterLoad(frame) == IF frame = << >> THEN "stopped" ELSE "filters"

\* df = load_and_prepare_data(CLEANED_CSV_URL); if df.empty: st.stop()
LoadData ==
    /\ pc = "load"
    /\ \E available \in BOOLEAN :
         LET r == CachedLoad(cache, available, source)
         IN  /\ cache' = r
             /\ df' = r.df
             /\ errors' = errors \o r.errors
             /\ load_result' = IF r.raised THEN "failed" ELSE "ok"
             /\ pc' = AfterLoad(r.df)
    /\ UNCHANGED << source, df_filtered, warnings, executed, store,
                    admin_view, admin_input, exception >>

\* df[col].dropna().unique()
Options(frame, col) ==
    {frame[i][col] : i \in 1..Len(frame)} \ {NoValue}

\* df[isin(gender) & isin(race) & isin(district)]
FilterFrame(frame, gender_filter, race_filter, district_filter) ==
    SelectSeq(frame, LAMBDA r :
        /\ r.JANTINA \in gender_filter
        /\ r.BANGSA \in race_filter
        /\ r.DAERAH \in district_filter)

\* sidebar: the three multiselects, the filtered frame, the sidebar metrics
ApplyFilters ==
    /\ pc = "filters"
    /\ \E gender_filter \in SUBSET Options(df, "JANTINA") :
       \E race_filter \in SUBSET Options(df, "BANGSA") :
       \E district_filter \in SUBSET Options(df, "DAERAH") :
         df_filtered' =
             FilterFrame(df, gender_filter, race_filter, district_filter)
    /\ executed' = executed \cup {"filter", "metric"}
    /\ pc' = "main"
    /\ UNCHANGED << source, cache, df, errors, warnings, load_result, store,
                    admin_view, admin_input, exception >>

\* df_filtered["Avg_Parental_Income"] = df_filtered[[...]].mean(axis=1)
WithAvgIncome(frame) ==
    [i \in 1..Len(frame) |->
        [frame[i] EXCEPT !.Avg_Parental_Income =
            RowMean(frame[i].Gaji_Bapa, frame[i].Gaji_Ibu)]]

\* the guard testing the loaded frame instead of the filtered one
EmptyGuard_on_df(filtered, loaded) == loaded = << >>

\* if df_filtered.empty
EmptyGuard(filtered, loaded) == filtered = << >>

\* the texts df.to_csv may write for a numeric value: the float spelling,
\* or the integer spelling when the column holds whole numbers only (int64)
ExportTexts(x) ==
    {FloatText(x)} \cup
        (IF x.k = "fin" /\ x.v % 2 = 0 THEN {IntText(x.v \div 2)} ELSE {})

ExportCategory(c) == IF c = NoValue THEN "" ELSE c

\* the rows df.to_csv(index=False) may write for one cleaned record (the
\* sidebar download), as a file served again would hold them
Exports(rec) ==
    [ JANTINA      : {ExportCategory(rec.JANTINA)},
      BANGSA       : {ExportCategory(rec.BANGSA)},
      DAERAH       : {ExportCategory(rec.DAERAH)},
      Berat_KG     : ExportTexts(rec.Berat_KG),
      Tinggi_CM    : ExportTexts(rec.Tinggi_CM),
      Umur_Bulan   : ExportTexts(rec.Umur_Bulan),
      Gaji_Bapa    : ExportTexts(rec.Gaji_Bapa),
      Gaji_Ibu     : ExportTexts(rec.Gaji_Ibu),
      Gaji_Penjaga : ExportTexts(rec.Gaji_Penjaga),
      BMI          : ExportTexts(rec.BMI) ]

\* main content: the empty guard, then the KPI cards, insights and tabs 1-4
MainContent ==
    /\ pc = "main"
    /\ IF EmptyGuard(df_filtered, df)
       THEN /\ warnings' = Append(warnings, NoDataWarning)
            /\ pc' = "stopped"
            /\ UNCHANGED << df_filtered, executed >>
       ELSE /\ df_filtered' = WithAvgIncome(df_filtered)
            /\ executed' = executed \cup {"metric", "chart"}
            /\ pc' = "feedback"
            /\ UNCHANGED warnings
    /\ UNCHANGED << source, cache, df, errors, load_result, store,
                    admin_view, admin_input, exception >>

\* tab 5: the rating slider, the text area and the Submit Feedback button
SubmitFeedback ==
    /\ pc = "feedback"
    /\ \E pressed \in BOOLEAN :
       \E rating \in Ratings :
       \E feedback \in TypedComments :
       \E timestamp \in Timestamps :
         IF pressed
         THEN /\ Len(store.rows) < MaxStore
              /\ store' = File(to_csv(
                     UpdatedFeedback(store, timestamp, rating, feedback)))
         ELSE UNCHANGED store
    /\ executed' = executed \cup {"feedback"}
    /\ pc' = "admin"
    /\ UNCHANGED << source, cache, df, df_filtered, errors, warnings,
                    load_result, admin_view, admin_input, exception >>

RECURSIVE SumRatings(_)
SumRatings(frame) ==
    IF frame = << >> THEN 0 ELSE Head(frame).Rating + SumRatings(Tail(frame))

FeedbackColumn(frame) == [i \in 1..Len(frame) |-> frame[i].Feedback]

\* the collected-feedback table, the summary metrics and the rating charts
TableView(frame) ==
    [ NoView EXCEPT !.shown = TRUE,
                    !.table = frame,
                    !.total_feedback = Len(frame),
                    !.rating_sum = SumRatings(frame) ]

\* the panel is opened by a wrong password as well
Granted_any_password(show_admin, admin_password) ==
    show_admin /\ admin_password # ""

\* if show_admin: ... if admin_password == "fsn2025":
Granted(show_admin, admin_password) ==
    show_admin /\ admin_password = AdminPassword

\* if show_admin: ... elif admin_password != "":
Rejected(show_admin, admin_password) ==
    show_admin /\ admin_password # ""

\* tab 5: the admin checkbox, the password field and the admin panel
AdminPanel ==
    /\ pc = "admin"
    /\ \E show_admin \in BOOLEAN :
       \E admin_password \in (IF show_admin THEN Passwords ELSE {""}) :
         /\ admin_input' = [ show_admin     |-> show_admin,
                             admin_password |-> admin_password ]
         /\ IF Granted(show_admin, admin_password)
            THEN IF ~store.exists
                 THEN /\ warnings' = Append(warnings, NoFeedbackWarning)
                      /\ UNCHANGED << errors, admin_view, exception >>
                 ELSE LET feedback_df == read_csv(store.rows)
                          column == FeedbackColumn(feedback_df)
                      IN  IF ApplyRaises(fillna(column))
                          THEN /\ admin_view' = TableView(feedback_df)
                               /\ exception' = "AttributeError"
                               /\ UNCHANGED << errors, warnings >>
                          ELSE /\ \E word_freq \in value_counts(KeywordTokens(column)) :
                                   admin_view' =
                                       [ TableView(feedback_df) EXCEPT
                                           !.sentiment = SentimentColumn(fillna(column)),
                                           !.keywords = head(word_freq, TopN),
                                           !.no_keywords = (word_freq = << >>),
                                           !.download = TRUE ]
                               /\ UNCHANGED << errors, warnings, exception >>
            ELSE IF Rejected(show_admin, admin_password)
                 THEN /\ errors' = Append(errors, PasswordError)
                      /\ UNCHANGED << warnings, admin_view, exception >>
                 ELSE UNCHANGED << errors, warnings, admin_view, exception >>
    /\ pc' = "done"
    /\ UNCHANGED << source, cache, df, df_filtered, executed, load_result,
                    store >>

Next ==
    \/ StartRun
    \/ LoadData
    \/ ApplyFilters
    \/ MainContent
    \/ SubmitFeedback
    \/ AdminPanel

Spec == Init /\ [][Next]_vars

(***************************************************************************)
(* 6. The cleaning step alone, on every combination of the cell texts.     *)
(***************************************************************************)
InitClean ==
    /\ pc = "load"
    /\ source \in {[columns_ok |-> TRUE, rows |-> << r >>] : r \in RichRawRecords}
    /\ cache = NoCache
    /\ store = NoFile
    /\ FreshRun

NextClean == LoadData

SpecClean == InitClean /\ [][NextClean]_vars

(***************************************************************************)
(* 7. The admin panel alone, on a feedback file holding one comment of     *)
(*    RichComments (the file a Submit Feedback of that comment writes),    *)
(*    in a run that has reached the admin panel.                           *)
(***************************************************************************)
DefaultSource ==
    [ columns_ok |-> TRUE,
      rows |-> << RawRecord("L", "Bachok", <<"1","5">>, <<"2","0">>, << >>) >> ]

InitSentiment ==
    LET loaded == CachedLoad(NoCache, TRUE, DefaultSource)
    IN  /\ pc = "admin"
        /\ source = DefaultSource
        /\ cache = loaded
        /\ df = loaded.df
        /\ df_filtered = WithAvgIncome(loaded.df)
        /\ errors = << >>
        /\ warnings = << >>
        /\ executed = {"filter", "metric", "chart", "feedback"}
        /\ load_result = "ok"
        /\ \E feedback \in RichComments :
           \E rating \in Ratings :
           \E timestamp \in Timestamps :
             store = File(to_csv(UpdatedFeedback(NoFile, timestamp, rating, feedback)))
        /\ admin_view = NoView
        /\ admin_input = NoInput
        /\ exception = ""

NextSentiment == AdminPanel

SpecSentiment == InitSentiment /\ [][NextSentiment]_vars

(***************************************************************************)
(* 8. Properties.                                                          *)
(***************************************************************************)
PositiveKeywords ==
    { <<"g","o","o","d">>, <<"n","i","c","e">>, <<"e","a","s","y">>,
      <<"h","e","l","p","f","u","l">>, <<"c","l","e","a","r">>,
      <<"g","r","e","a","t">> }

NegativeKeywords ==
    { <<"b","a","d">>, <<"d","i","f","f","i","c","u","l","t">>,
      <<"c","o","n","f","u","s","i","n","g">>, <<"s","l","o","w">>,
      <<"n","o","t"," ","g","o","o","d">> }

\* word occurs in text: text is some prefix, then word, then some suffix
Occurs(word, text) ==
    \E a \in 0..Len(text) : \E b \in a..Len(text) :
        SubSeq(text, a + 1, b) = word

HasPositive(text) == \E w \in PositiveKeywords : Occurs(w, Lower(text))
HasNegative(text) == \E w \in NegativeKeywords : Occurs(w, Lower(text))

\* the comments of the stored entries, as the user typed them into the file
StoredComment(i) == store.rows[i].Feedback

\* the admin panel has derived the Sentiment column of the table it shows
SentimentDerived ==
    /\ admin_view.shown
    /\ Len(admin_view.sentiment) = Len(store.rows)

\* C1: a comment whose lower-cased text contains a positive keyword and a
\* negative keyword is labelled Positive.
C1_PositiveBeforeNegative ==
    admin_view.shown =>
        \A i \in 1..Len(store.rows) :
            (HasPositive(StoredComment(i)) /\ HasNegative(StoredComment(i)))
                => (SentimentDerived /\ admin_view.sentiment[i] = "Positive")

C1_Witness ==
    /\ SentimentDerived
    /\ \E i \in 1..Len(store.rows) :
        /\ HasPositive(StoredComment(i))
        /\ \E w \in NegativeKeywords \ { <<"n","o","t"," ","g","o","o","d">> } :
              Occurs(w, Lower(StoredComment(i)))
        /\ admin_view.sentiment[i] = "Positive"

\* C2: a comment whose lower-cased text contains no positive keyword and
\* contains a negative keyword is labelled Negative.
C2_NegativeWithoutPositive ==
    admin_view.shown =>
        \A i \in 1..Len(store.rows) :
            (~HasPositive(StoredComment(i)) /\ HasNegative(StoredComment(i)))
                => (SentimentDerived /\ admin_view.sentiment[i] = "Negative")

C2_Witness ==
    /\ SentimentDerived
    /\ \E i \in 1..Len(store.rows) :
        /\ ~HasPositive(StoredComment(i))
        /\ HasNegative(StoredComment(i))
        /\ Len(Split(StoredComment(i))) > 1
        /\ admin_view.sentiment[i] = "Negative"

\* C3: every entry with an empty or absent comment is labelled Neutral, the
\* classification raises no error, and every entry receives exactly one
\* label of Positive, Negative, Neutral.
C3_AbsentIsNeutral ==
    admin_view.shown =>
        /\ exception = ""
        /\ SentimentDerived
        /\ \A i \in 1..Len(store.rows) :
            /\ admin_view.sentiment[i] \in Labels
            /\ admin_view.table[i].Feedback.k = "nan"
                  => admin_view.sentiment[i] = "Neutral"

\* the tokens of the corpus: the comments that are present, joined,
\* lower-cased and split on whitespace
CorpusTokens ==
    LET rows == SelectSeq(store.rows, LAMBDA r : r.Feedback \notin STR_NA_VALUES)
    IN  Split(Lower(Join([i \in 1..Len(rows) |-> rows[i].Feedback])))

FirstSeen(words, w) == CHOOSE i \in 1..Len(words) :
    words[i] = w /\ \A j \in 1..(i - 1) : words[j] # w

Kept(w) == w \notin Range(stopwords) /\ Len(w) >= MinLen + 1

Present(x) == x.k # "nan"

\* C5: Avg_Parental_Income is the father's salary when only it is present,
\* the mother's when only it is present, the mean of the two when both
\* are, and absent if and only if both are absent.
C5_AvgParentalIncome ==
    load_result = "ok" =>
        \A i \in 1..Len(df) :
            LET f == df[i].Gaji_Bapa
                m == df[i].Gaji_Ibu
                a == df[i].Avg_Parental_Income
            IN  /\ (Present(f) /\ ~Present(m)) => a = f
                /\ (~Present(f) /\ Present(m)) => a = m
                /\ (f.k = "fin" /\ m.k = "fin") => a = Fin((f.v + m.v) \div 2)
                /\ ~Present(a) <=> (~Present(f) /\ ~Present(m))

\* C6: when the load fails, exactly one error is reported, the frame is
\* empty and the run has stopped with no filter, metric, chart or feedback
\* step executed.
C6_LoadFailureHalts ==
    load_result = "failed" =>
        /\ errors = << LoadError >>
        /\ df = << >>
        /\ pc = "stopped"
        /\ executed = {}
        /\ df_filtered = << >>
        /\ admin_view = NoView

C6_Witness ==
    /\ load_result = "failed"
    /\ pc = "stopped"
    /\ errors = << LoadError >>

\* the run is past the empty guard with nothing left after the filters
FilteredEmpty ==
    /\ load_result = "ok"
    /\ "filter" \in executed
    /\ df_filtered = << >>
    /\ pc # "main"

\* C7: an empty frame after filtering a loaded dataset reports no error
\* and shows the no-data warning; a load failure shows an error and no
\* warning, so the two are never signalled the same way.
C7_EmptyFilterIsNotLoadFailure ==
    /\ FilteredEmpty =>
        /\ pc = "stopped"
        /\ errors = << >>
        /\ warnings = << NoDataWarning >>
    /\ load_result = "failed" =>
        /\ errors # << >>
        /\ warnings = << >>

C7_Witness ==
    /\ FilteredEmpty
    /\ df # << >>
    /\ warnings = << NoDataWarning >>

\* C8: every step leaves the stored entries a prefix of the new store; a
\* step that changes the store adds exactly one entry at its end.
C8_AppendOnly ==
    [][ \/ store' = store
        \/ /\ store'.exists
           /\ Len(store'.rows) = Len(store.rows) + 1
           /\ SubSeq(store'.rows, 1, Len(store.rows)) = store.rows ]_vars

\* C9: after loading, every salary field of every record is a finite
\* number that is not negative, or absent.
C9_SalaryFields ==
    load_result = "ok" =>
        \A i \in 1..Len(df) :
            \A x \in {df[i].Gaji_Bapa, df[i].Gaji_Ibu, df[i].Gaji_Penjaga} :
                ~Present(x) \/ (x.k = "fin" /\ x.v >= 0)

\* C10: bmi is present if and only if weight and height are present and the
\* height is positive, and a present bmi is positive.
C10_BmiPresence ==
    load_result = "ok" =>
        \A i \in 1..Len(df) :
            LET w == df[i].Berat_KG
                h == df[i].Tinggi_CM
                b == df[i].BMI
            IN  /\ Present(b) <=>
                      (Present(w) /\ Present(h) /\ (h.k = "inf" => h.v > 0)
                          /\ (h.k = "fin" => h.v > 0))
                /\ Present(b) => (b.k = "inf" /\ b.v > 0) \/ (b.k = "fin" /\ b.v > 0)

\* C11: cleaning an already-cleaned record yields the same record: the
\* record a cleaned row is written as cleans to that row again, and
\* deriving Avg_Parental_Income again on the cleaned frame changes nothing.
C11_CleaningIdempotent ==
    load_result = "ok" =>
        /\ WithAvgIncome(df) = df
        /\ \A i \in 1..Len(df) :
              \A raw \in Exports(df[i]) : CleanRecord(raw) = df[i]

C11_Witness ==
    /\ load_result = "ok"
    /\ Len(df) = 1
    /\ df[1].Gaji_Bapa.k = "fin"
    /\ df[1].Gaji_Ibu.k = "nan"
    /\ df[1].Avg_Parental_Income = df[1].Gaji_Bapa
    /\ source.rows[1] \notin Exports(df[1])

\* the label the keyword rule gives a comment
ExpectedLabel(text) ==
    IF HasPositive(text) THEN "Positive"
    ELSE IF HasNegative(text) THEN "Negative"
    ELSE "Neutral"

\* the text of a value of the Feedback column once missing values are ""
FilledText(cell) == IF cell.k = "nan" THEN << >> ELSE cell.s

NotGood == <<"n","o","t"," ","g","o","o","d">>

\* the label of a comment under the keyword rule without "not good"
LabelWithoutNotGood(text) ==
    IF HasPositive(text) THEN "Positive"
    ELSE IF \E w \in NegativeKeywords \ {NotGood} : Occurs(w, Lower(text))
         THEN "Negative"
         ELSE "Neutral"

\* C13: every comment whose lower-cased text contains "not good" contains
\* "good" and is labelled Positive, and every comment has the label it would
\* have with "not good" taken out of the negative keywords.
C13_NotGoodNeverDecides ==
    SentimentDerived =>
        \A i \in 1..Len(store.rows) :
            /\ Occurs(NotGood, Lower(StoredComment(i))) =>
                  /\ Occurs(<<"g","o","o","d">>, Lower(StoredComment(i)))
                  /\ admin_view.sentiment[i] = "Positive"
            /\ admin_view.sentiment[i] = LabelWithoutNotGood(StoredComment(i))

C13_Witness ==
    /\ SentimentDerived
    /\ Len(store.rows) = 1
    /\ Occurs(NotGood, Lower(StoredComment(1)))
    /\ StoredComment(1) # NotGood
    /\ admin_view.sentiment[1] = "Positive"

\* feedback data on the page: the table, the metrics, the labels, the
\* keywords or the download
FeedbackDataShown == admin_view # NoView

\* C14: feedback data is on the page only if the checkbox is ticked and the
\* password entered equals the configured one; a ticked checkbox with a
\* non-empty other password gives the error message and no feedback data, and
\* with an empty password neither an error message nor feedback data.
C14_AdminGate ==
    /\ FeedbackDataShown =>
          /\ admin_input.show_admin
          /\ admin_input.admin_password = AdminPassword
    /\ pc = "done" =>
          /\ ( /\ admin_input.show_admin
               /\ admin_input.admin_password \notin {"", AdminPassword} )
                => /\ errors = << PasswordError >>
                   /\ ~FeedbackDataShown
          /\ ( /\ admin_input.show_admin
               /\ admin_input.admin_password = "" )
                => /\ errors = << >>
                   /\ ~FeedbackDataShown

C14_Witness ==
    /\ pc = "done"
    /\ store.exists
    /\ admin_input.show_admin
    /\ admin_input.admin_password = "FSN2025"
    /\ errors = << PasswordError >>
    /\ ~FeedbackDataShown

====
